---- MODULE Spec2Model ----
(***************************************************************************)
(* Model of src/app.py: the invisible-character cleaner (clean_text), the  *)
(* HTML scanner (HTMLToReportLab, parse_html_body), the message-to-PDF     *)
(* conversion (msg_to_pdf_bytes) and the ZIP batch loop.                   *)
(*                                                                         *)
(* Text is a sequence of one-character strings; a code point that has no   *)
(* printable form is written by its name ("U+200B", "LF").  The markers    *)
(* the scanner writes into the text stream ("<b>", "</b>", "<i>", "</i>",  *)
(* "<br/>") are single elements of such a sequence.  An optional value     *)
(* (Python's None or a value) is a record [has, v].                        *)
(***************************************************************************)
EXTENDS Integers, Sequences, FiniteSets, TLC

VARIABLES
    \* ---- clean_text called on its own
    t, r1, r2, cpc,
    \* ---- msg_to_pdf_bytes: the message, the extracted fields
    msg, mpc, sender, to, cc, subject, date, body_html, body_text,
    \* ---- HTMLToReportLab: the input events, the position, the fields
    pos, text_parts, in_table, table_data, current_row, current_cell,
    in_bold, in_italic,
    \* ---- parse_html_body's result and the document being built
    parsed_text, tables, ti, elements,
    \* ---- the batch loop
    zip_ok, infolist, fi, msg_count, errors, outzip, bpc, reported

cleanVars == <<t, r1, r2, cpc>>
fieldVars == <<sender, to, cc, subject, date, body_html, body_text>>
parserVars == <<pos, text_parts, in_table, table_data, current_row,
                current_cell, in_bold, in_italic>>
docVars == <<parsed_text, tables, ti, elements>>
msgVars == <<msg, mpc, fieldVars, parserVars, docVars>>
batchVars == <<zip_ok, infolist, fi, msg_count, errors, outzip, bpc, reported>>
vars == <<cleanVars, msgVars, batchVars>>

----------------------------------------------------------------------------
(* Bounds of the model *)

\* longest text handed to clean_text on its own
MaxLen == 3
\* most fragments a markup body is put together from
MaxFrags == 2
\* most rows, and most cells of a row, of a well-formed table body
MaxRows == 2
MaxCells == 2
\* most entries of the uploaded archive
MaxEntries == 3

----------------------------------------------------------------------------
(* Optional values *)

None == [has |-> FALSE, v |-> <<>>]
Some(x) == [has |-> TRUE, v |-> x]
\* Python truthiness of an optional text or list: None and "" are falsy
Truthy(x) == x.has /\ x.v # <<>>

SeqsUpTo(S, n) == UNION {[1..k -> S] : k \in 0..n}

RECURSIVE Flatten(_)
\* ''.join(parts)
Flatten(parts) ==
    IF parts = <<>> THEN <<>> ELSE Head(parts) \o Flatten(Tail(parts))

----------------------------------------------------------------------------
(* clean_text *)

INVISIBLE_CHARS_short ==
    << "U+200B", "U+200C", "U+200D", "U+FEFF",
       "U+202A", "U+202B", "U+202C", "U+202D", "U+202E",
       "U+2060", "U+000B", "U+000C" >>

INVISIBLE_CHARS ==
    << "U+200B", "U+200C", "U+200D", "U+FEFF",
       "U+202A", "U+202B", "U+202C", "U+202D", "U+202E",
       "U+2060", "U+000B", "U+000C", "U+00AD" >>

\* str.replace(ch, "") for a one-character ch
Replace(s, ch) == SelectSeq(s, LAMBDA c : c # ch)

RECURSIVE ReplaceLoop(_, _)
\* for ch in INVISIBLE_CHARS: t = t.replace(ch, "")
ReplaceLoop(s, k) ==
    IF k > Len(INVISIBLE_CHARS) THEN s
    ELSE ReplaceLoop(Replace(s, INVISIBLE_CHARS[k]), k + 1)

\* clean_text(t): the argument is None or a text
clean_text(x) == IF ~Truthy(x) THEN <<>> ELSE ReplaceLoop(x.v, 1)

\* str(x) of a value that is a text already
Str(x) == x.v

\* the code points texts are drawn from: the listed ones, and visible ones
\* next to them (U+202F follows U+202E, LF precedes U+000B)
CleanAlphabet ==
    { "U+200B", "U+200C", "U+200D", "U+FEFF",
      "U+202A", "U+202B", "U+202C", "U+202D", "U+202E",
      "U+2060", "U+000B", "U+000C", "U+00AD",
      "A", " ", "LF", "U+202F" }

CleanInputs == {None} \cup {Some(s) : s \in SeqsUpTo(CleanAlphabet, MaxLen)}

CleanOnce ==
    /\ cpc = "start"
    /\ r1' = clean_text(t)
    /\ cpc' = "cleaned"
    /\ UNCHANGED <<t, r2, msgVars, batchVars>>

CleanTwice ==
    /\ cpc = "cleaned"
    /\ r2' = clean_text(Some(r1))
    /\ cpc' = "again"
    /\ UNCHANGED <<t, r1, msgVars, batchVars>>

----------------------------------------------------------------------------
(* The events HTMLParser.feed hands to the handlers.  A tag arrives in      *)
(* lower case; a self-closing tag (<br/>) arrives as a start then an end.   *)

S(tag) == [kind |-> "start", tag |-> tag, data |-> <<>>]
E(tag) == [kind |-> "end", tag |-> tag, data |-> <<>>]
D(s) == [kind |-> "data", tag |-> "", data |-> s]

\* the characters str.strip() removes, among those of the model
Whitespace == {" ", "LF", "U+000B", "U+000C"}

RECURSIVE LStrip(_)
LStrip(s) ==
    IF s # <<>> /\ Head(s) \in Whitespace THEN LStrip(Tail(s)) ELSE s

RECURSIVE RStrip(_)
RStrip(s) ==
    IF s # <<>> /\ s[Len(s)] \in Whitespace
    THEN RStrip(SubSeq(s, 1, Len(s) - 1)) ELSE s

\* str.strip()
Strip(s) == RStrip(LStrip(s))

----------------------------------------------------------------------------
(* HTMLToReportLab *)

\* the text the parser is fed: msg_to_pdf_bytes hands it body_html
html == body_html.v

\* a mutant of RowClose: the row is appended even when it has no cell
RowCloseAlways(data, row) == Append(data, row)

\* handle_endtag, 'tr': if self.current_row: self.table_data.append(...)
RowClose(data, row) == IF row # <<>> THEN Append(data, row) ELSE data

\* handle_endtag, 'td'/'th': the stripped cell text is appended to the row
CellClose(row, cell) == Append(row, Strip(Flatten(cell)))

\* "self.current_cell is not None": current_cell is a list from __init__ on
\* and every assignment to it is a list
CurrentCellIsNotNone == TRUE

handle_starttag ==
    /\ mpc = "feed"
    /\ pos <= Len(html)
    /\ html[pos].kind = "start"
    /\ pos' = pos + 1
    /\ LET tag == html[pos].tag IN
       IF tag = "table" THEN
            /\ in_table' = TRUE
            /\ table_data' = <<>>
            /\ UNCHANGED <<text_parts, current_row, current_cell, in_bold, in_italic>>
       ELSE IF tag = "tr" /\ in_table THEN
            /\ current_row' = <<>>
            /\ UNCHANGED <<text_parts, in_table, table_data, current_cell, in_bold, in_italic>>
       ELSE IF tag \in {"td", "th"} /\ in_table THEN
            /\ current_cell' = <<>>
            /\ UNCHANGED <<text_parts, in_table, table_data, current_row, in_bold, in_italic>>
       ELSE IF tag = "br" THEN
            /\ text_parts' = Append(text_parts, <<"<br/>">>)
            /\ UNCHANGED <<in_table, table_data, current_row, current_cell, in_bold, in_italic>>
       ELSE IF tag = "b" \/ tag = "strong" THEN
            /\ in_bold' = TRUE
            /\ text_parts' = Append(text_parts, <<"<b>">>)
            /\ UNCHANGED <<in_table, table_data, current_row, current_cell, in_italic>>
       ELSE IF tag = "i" \/ tag = "em" THEN
            /\ in_italic' = TRUE
            /\ text_parts' = Append(text_parts, <<"<i>">>)
            /\ UNCHANGED <<in_table, table_data, current_row, current_cell, in_bold>>
       ELSE IF tag = "p" THEN
            /\ text_parts' = Append(text_parts, <<"<br/>">>)
            /\ UNCHANGED <<in_table, table_data, current_row, current_cell, in_bold, in_italic>>
       ELSE UNCHANGED <<text_parts, in_table, table_data, current_row, current_cell, in_bold, in_italic>>
    /\ UNCHANGED <<msg, mpc, fieldVars, docVars, cleanVars, batchVars>>

handle_endtag ==
    /\ mpc = "feed"
    /\ pos <= Len(html)
    /\ html[pos].kind = "end"
    /\ pos' = pos + 1
    /\ LET tag == html[pos].tag IN
       IF tag = "table" THEN
            /\ in_table' = FALSE
            /\ UNCHANGED <<text_parts, table_data, current_row, current_cell, in_bold, in_italic>>
       ELSE IF tag = "tr" /\ in_table THEN
            /\ table_data' = RowClose(table_data, current_row)
            /\ current_row' = <<>>
            /\ UNCHANGED <<text_parts, in_table, current_cell, in_bold, in_italic>>
       ELSE IF tag \in {"td", "th"} /\ in_table THEN
            /\ current_row' = CellClose(current_row, current_cell)
            /\ current_cell' = <<>>
            /\ UNCHANGED <<text_parts, in_table, table_data, in_bold, in_italic>>
       ELSE IF tag = "b" \/ tag = "strong" THEN
            /\ in_bold' = FALSE
            /\ text_parts' = Append(text_parts, <<"</b>">>)
            /\ UNCHANGED <<in_table, table_data, current_row, current_cell, in_italic>>
       ELSE IF tag = "i" \/ tag = "em" THEN
            /\ in_italic' = FALSE
            /\ text_parts' = Append(text_parts, <<"</i>">>)
            /\ UNCHANGED <<in_table, table_data, current_row, current_cell, in_bold>>
       ELSE IF tag = "p" THEN
            /\ text_parts' = Append(text_parts, <<"<br/>">>)
            /\ UNCHANGED <<in_table, table_data, current_row, current_cell, in_bold, in_italic>>
       ELSE UNCHANGED <<text_parts, in_table, table_data, current_row, current_cell, in_bold, in_italic>>
    /\ UNCHANGED <<msg, mpc, fieldVars, docVars, cleanVars, batchVars>>

handle_data ==
    /\ mpc = "feed"
    /\ pos <= Len(html)
    /\ html[pos].kind = "data"
    /\ pos' = pos + 1
    /\ IF in_table /\ CurrentCellIsNotNone
       THEN /\ current_cell' = Append(current_cell, html[pos].data)
            /\ UNCHANGED text_parts
       ELSE /\ text_parts' = Append(text_parts, html[pos].data)
            /\ UNCHANGED current_cell
    /\ UNCHANGED <<in_table, table_data, current_row, in_bold, in_italic>>
    /\ UNCHANGED <<msg, mpc, fieldVars, docVars, cleanVars, batchVars>>

get_content == Flatten(text_parts)

\* a mutant of get_tables: the rows of a table that was never closed are withheld
get_tables_closed_only == IF in_table THEN <<>> ELSE table_data

get_tables == table_data

\* parse_html_body: the feed is over; return parser.get_content(), parser.get_tables()
parse_html_body_return ==
    /\ mpc = "feed"
    /\ pos > Len(html)
    /\ parsed_text' = get_content
    /\ tables' = get_tables
    /\ mpc' = "parsed"
    /\ UNCHANGED <<msg, fieldVars, parserVars, ti, elements, cleanVars, batchVars>>

----------------------------------------------------------------------------
(* msg_to_pdf_bytes *)

\* the blocks handed to SimpleDocTemplate.build
Paragraph(text) == [type |-> "Paragraph", content |-> text]
Spacer == [type |-> "Spacer", content |-> <<>>]
Table(data) == [type |-> "Table", content |-> data]

\* str(msg.x) if msg.x else ""
StrOrEmpty(x) == IF Truthy(x) THEN Str(x) ELSE <<>>

\* a mutant of Field: the property is not cleaned
FieldRaw(x) == StrOrEmpty(x)

\* clean_text(str(msg.x) if msg.x else "")
Field(x) == clean_text(Some(StrOrEmpty(x)))

\* msg.htmlBody if hasattr(msg, 'htmlBody') and msg.htmlBody else None
HtmlBodyOf(m) ==
    IF m.has_htmlBody /\ Truthy(m.htmlBody) THEN Some(m.htmlBody.v) ELSE None

\* the f-string info, with its two optional lines
Info(subj, from, rcpt, copy, when) ==
    <<"<b>Subject:</b>">> \o subj \o <<"<br/>">>
        \o <<"<b>From:</b>">> \o from \o <<"<br/>">>
        \o <<"<b>To:</b>">> \o rcpt \o <<"<br/>">>
        \o (IF copy # <<>> THEN <<"<b>CC:</b>">> \o copy \o <<"<br/>">> ELSE <<>>)
        \o (IF when # <<>> THEN <<"<b>Date:</b>">> \o when \o <<"<br/>">> ELSE <<>>)

\* body_text.replace('\n', '<br/>')
NewlinesToBreaks(s) == [k \in 1..Len(s) |-> IF s[k] = "LF" THEN "<br/>" ELSE s[k]]

RECURSIVE MarkupOkFrom(_, _)
MarkupOkFrom(s, stack) ==
    IF s = <<>> THEN stack = <<>>
    ELSE LET c == Head(s) IN
         IF c \in {"<b>", "<i>"} THEN MarkupOkFrom(Tail(s), <<c>> \o stack)
         ELSE IF c \in {"</b>", "</i>"}
              THEN /\ stack # <<>>
                   /\ Head(stack) = (IF c = "</b>" THEN "<b>" ELSE "<i>")
                   /\ MarkupOkFrom(Tail(s), Tail(stack))
              ELSE MarkupOkFrom(Tail(s), stack)

\* whether every formatting marker of the text handed to Paragraph is closed
\* in order; Paragraph may refuse a text whose markers are not
MarkupOk(s) == MarkupOkFrom(s, <<>>)

\* extract_msg.Message(temp_file) raises on bytes that are no message
OpenRaises ==
    /\ mpc = "start"
    /\ ~msg.valid
    /\ mpc' = "raised"
    /\ UNCHANGED <<msg, fieldVars, parserVars, docVars, cleanVars, batchVars>>

\* lines 123-162: the fields are read and cleaned, the header is built
Extract ==
    /\ mpc = "start"
    /\ msg.valid
    /\ sender' = Field(msg.sender)
    /\ to' = Field(msg.to)
    /\ cc' = Field(msg.cc)
    /\ subject' = Field(msg.subject)
    /\ date' = Field(msg.date)
    /\ body_html' = HtmlBodyOf(msg)
    /\ body_text' = Field(msg.body)
    /\ elements' = << Paragraph(<<"<b>Email Message</b>">>), Spacer,
                      Paragraph(Info(subject', sender', to', cc', date')), Spacer,
                      Paragraph(<<"<b>Body:</b>">>), Spacer >>
    /\ mpc' = "body"
    /\ UNCHANGED <<msg, parserVars, parsed_text, tables, ti, cleanVars, batchVars>>

\* if body_html: parse_html_body(body_html) builds a parser and feeds it
BranchHtml ==
    /\ mpc = "body"
    /\ Truthy(body_html)
    /\ text_parts' = <<>>
    /\ in_table' = FALSE
    /\ table_data' = <<>>
    /\ current_row' = <<>>
    /\ current_cell' = <<>>
    /\ in_bold' = FALSE
    /\ in_italic' = FALSE
    /\ pos' = 1
    /\ mpc' = "feed"
    /\ UNCHANGED <<msg, fieldVars, docVars, cleanVars, batchVars>>

\* else: the plain body, its newlines turned into breaks
BranchPlain ==
    /\ mpc = "body"
    /\ ~Truthy(body_html)
    /\ elements' = Append(elements, Paragraph(NewlinesToBreaks(body_text)))
    /\ mpc' = "build"
    /\ UNCHANGED <<msg, fieldVars, parserVars, parsed_text, tables, ti, cleanVars, batchVars>>

\* if parsed_text.strip(): the text becomes one Paragraph
AddParsedText ==
    /\ mpc = "parsed"
    /\ elements' = IF Strip(parsed_text) # <<>>
                   THEN elements \o <<Paragraph(parsed_text), Spacer>>
                   ELSE elements
    /\ ti' = 1
    /\ mpc' = "tables"
    /\ UNCHANGED <<msg, fieldVars, parserVars, parsed_text, tables, cleanVars, batchVars>>

\* Paragraph(parsed_text) raises on markup it cannot parse
ParagraphRaises ==
    /\ mpc = "parsed"
    /\ Strip(parsed_text) # <<>>
    /\ ~MarkupOk(parsed_text)
    /\ mpc' = "raised"
    /\ UNCHANGED <<msg, fieldVars, parserVars, docVars, cleanVars, batchVars>>

\* for table_data in tables: one turn of the loop; Table(...) may raise,
\* and the bare except drops that element
AddTable ==
    /\ mpc = "tables"
    /\ ti <= Len(tables)
    /\ \E ok \in BOOLEAN :
         elements' = IF tables[ti] # <<>> /\ ok
                     THEN elements \o <<Table(tables[ti]), Spacer>>
                     ELSE elements
    /\ ti' = ti + 1
    /\ UNCHANGED <<msg, mpc, fieldVars, parserVars, parsed_text, tables, cleanVars, batchVars>>

BuildReady == mpc = "build" \/ (mpc = "tables" /\ ti > Len(tables))

\* doc.build(elements); return pdf_buffer.getvalue()
Build ==
    /\ BuildReady
    /\ mpc' = "done"
    /\ UNCHANGED <<msg, fieldVars, parserVars, docVars, cleanVars, batchVars>>

\* doc.build(elements) raises
BuildRaises ==
    /\ BuildReady
    /\ mpc' = "raised"
    /\ UNCHANGED <<msg, fieldVars, parserVars, docVars, cleanVars, batchVars>>

----------------------------------------------------------------------------
(* The batch loop of the page script *)

\* f.filename.lower(): the extensions of the model, lower-cased
Lower(ext) == IF ext = ".MSG" THEN ".msg" ELSE ext

\* f.is_dir() or not f.filename.lower().endswith(".msg")
Skipped(f) == f.is_dir \/ Lower(f.name.ext) # ".msg"

\* f"{base}.pdf", base = os.path.splitext(os.path.basename(f.filename))[0]
PdfName(f) == [dir |-> "", stem |-> f.name.stem, ext |-> ".pdf"]

\* a mutant of RecordError: the exception is swallowed
RecordErrorDropped(errs, f) == errs

\* errors.append(f"{f.filename}: {str(e)}")
RecordError(errs, f) == Append(errs, [filename |-> f.name, error |-> f.outcome])

\* zipfile.ZipFile(...) raises on bytes that are no archive: the outer except
OpenZipRaises ==
    /\ bpc = "start"
    /\ ~zip_ok
    /\ bpc' = "error"
    /\ UNCHANGED <<zip_ok, infolist, fi, msg_count, errors, outzip, reported, cleanVars, msgVars>>

\* lines 218-225
OpenZip ==
    /\ bpc = "start"
    /\ zip_ok
    /\ msg_count' = 0
    /\ errors' = <<>>
    /\ outzip' = <<>>
    /\ fi' = 1
    /\ bpc' = "loop"
    /\ UNCHANGED <<zip_ok, infolist, reported, cleanVars, msgVars>>

\* lines 227-228: continue
SkipEntry ==
    /\ bpc = "loop"
    /\ fi <= Len(infolist)
    /\ Skipped(infolist[fi])
    /\ fi' = fi + 1
    /\ UNCHANGED <<zip_ok, infolist, msg_count, errors, outzip, bpc, reported, cleanVars, msgVars>>

\* lines 230-236: the try block runs to its end
ConvertEntry ==
    /\ bpc = "loop"
    /\ fi <= Len(infolist)
    /\ ~Skipped(infolist[fi])
    /\ infolist[fi].outcome = "ok"
    /\ msg_count' = msg_count + 1
    /\ outzip' = Append(outzip, PdfName(infolist[fi]))
    /\ fi' = fi + 1
    /\ UNCHANGED <<zip_ok, infolist, errors, bpc, reported, cleanVars, msgVars>>

\* lines 230-238: input_zip.read or msg_to_pdf_bytes raises
ConvertRaises ==
    /\ bpc = "loop"
    /\ fi <= Len(infolist)
    /\ ~Skipped(infolist[fi])
    /\ infolist[fi].outcome # "ok"
    /\ msg_count' = msg_count + 1
    /\ errors' = RecordError(errors, infolist[fi])
    /\ fi' = fi + 1
    /\ UNCHANGED <<zip_ok, infolist, outzip, bpc, reported, cleanVars, msgVars>>

\* lines 240-258: what the page tells the user
Report ==
    /\ bpc = "loop"
    /\ fi > Len(infolist)
    /\ reported' = IF msg_count = 0
                   THEN [shown |-> "none", converted |-> 0, failed |-> 0]
                   ELSE [shown |-> "success", converted |-> msg_count,
                         failed |-> Len(errors)]
    /\ bpc' = "done"
    /\ UNCHANGED <<zip_ok, infolist, fi, msg_count, errors, outzip, cleanVars, msgVars>>

----------------------------------------------------------------------------
(* Inputs *)

\* the property values a message is drawn with
TextSamples == {None, Some(<<>>), Some(<<"A", "U+200B", "LF">>)}

\* the pieces markup bodies are put together from
Fragments ==
    { <<S("table")>>, <<E("table")>>, <<S("tr")>>, <<E("tr")>>,
      <<S("td")>>, <<E("td")>>, <<S("th")>>, <<E("th")>>,
      <<S("b")>>, <<E("b")>>, <<S("i")>>, <<E("i")>>,
      <<D(<<"A">>)>>, <<D(<<" ", "B", " ">>)>>,
      <<S("br"), E("br")>>,
      <<S("p"), D(<<"A">>), E("p")>>,
      <<S("div"), D(<<"A">>), E("div")>>,
      <<S("tr"), S("th"), D(<<" ", "B", " ">>), E("th"), E("tr")>>,
      <<S("table"), S("tr"), S("td"), D(<<"A">>), E("td"), E("tr"), E("table")>>,
      <<S("table"), S("tr"), S("td"), D(<<"A">>), E("td"), E("tr"),
        S("tr"), S("td"), D(<<"B">>), E("td")>>,
      <<S("table"), D(<<"A">>), S("tr"), S("td"), D(<<"B">>), E("td"),
        D(<<"A">>), E("tr"), E("table")>>,
      <<S("b"), D(<<"A">>), S("strong"), D(<<"B">>), E("strong"), D(<<"A">>),
        E("b"), D(<<"B">>)>>,
      <<S("i"), D(<<"A">>), S("em"), D(<<"B">>), E("em"), D(<<"A">>),
        E("i"), D(<<"B">>)>> }

FragBodies == {Flatten(fs) : fs \in SeqsUpTo(Fragments, MaxFrags)}

\* the k-th cell of a row: a header cell first, then data cells
CellEvents(k) ==
    LET tag == IF k = 1 THEN "th" ELSE "td"
        txt == IF k % 2 = 1 THEN <<"A">> ELSE <<" ", "B", " ">>
    IN  <<S(tag), D(txt), E(tag)>>

RowEvents(n) ==
    <<S("tr")>> \o Flatten([k \in 1..n |-> CellEvents(k)]) \o <<E("tr")>>

\* a table whose i-th row has shape[i] cells, text before and after it or not
TableBody(shape, lead, trail) ==
    (IF lead THEN <<S("b"), D(<<"A">>), E("b")>> ELSE <<>>)
        \o <<S("table")>>
        \o Flatten([i \in 1..Len(shape) |-> RowEvents(shape[i])])
        \o <<E("table")>>
        \o (IF trail THEN <<D(<<"B">>)>> ELSE <<>>)

WellFormedBodies ==
    {TableBody(shape, lead, trail) :
        shape \in SeqsUpTo(0..MaxCells, MaxRows), lead \in BOOLEAN, trail \in BOOLEAN}

\* the body of the specification's round-trip example
ExampleBody ==
    <<S("b"), D(<<"H", "i">>), E("b"), D(<<" ", "t", "h", "e", "r", "e">>),
      S("br"), E("br"),
      S("table"), S("tr"), S("td"), D(<<"A">>), E("td"),
      S("td"), D(<<"B">>), E("td"), E("tr"), E("table")>>

Bodies == FragBodies \cup WellFormedBodies \cup {ExampleBody}

Message(snd, rcpt, copy, subj, when, body, hb, attr, ok) ==
    [sender |-> snd, to |-> rcpt, cc |-> copy, subject |-> subj, date |-> when,
     body |-> body, htmlBody |-> hb, has_htmlBody |-> attr, valid |-> ok]

InvalidMessage == Message(None, None, None, None, None, None, None, FALSE, FALSE)

\* messages whose text properties vary, with a few markup bodies
FieldMessages ==
    {Message(snd, rcpt, copy, subj, when, body, hb[1], hb[2], TRUE) :
        snd \in TextSamples, rcpt \in TextSamples, copy \in TextSamples,
        subj \in TextSamples, when \in TextSamples, body \in TextSamples,
        hb \in { <<None, FALSE>>, <<None, TRUE>>, <<Some(<<>>), TRUE>>,
                 <<Some(<<D(<<"A", "U+200B">>)>>), TRUE>> }}

\* messages whose markup body varies
BodyMessages ==
    {Message(None, None, None, None, None, Some(<<"A">>), Some(b), TRUE, TRUE) :
        b \in Bodies}

Messages == FieldMessages \cup BodyMessages \cup {InvalidMessage}

FileNames ==
    { [dir |-> "", stem |-> "a", ext |-> ".msg"],
      [dir |-> "d/", stem |-> "a", ext |-> ".MSG"],
      [dir |-> "", stem |-> "b", ext |-> ".msg"],
      [dir |-> "", stem |-> "b", ext |-> ".txt"] }

Entries ==
    {[name |-> n, is_dir |-> FALSE, outcome |-> o] :
        n \in FileNames, o \in {"ok", "read raises", "convert raises"}}
    \cup {[name |-> [dir |-> "d/", stem |-> "", ext |-> ""], is_dir |-> TRUE,
           outcome |-> "ok"]}

----------------------------------------------------------------------------
(* Specifications *)

\* clean_text is about to be called on a text
InitClean ==
    /\ t \in CleanInputs /\ r1 = <<>> /\ r2 = <<>> /\ cpc = "start"
    /\ msg = InvalidMessage /\ mpc = "idle"
    /\ sender = <<>> /\ to = <<>> /\ cc = <<>> /\ subject = <<>> /\ date = <<>>
    /\ body_html = None /\ body_text = <<>>
    /\ pos = 1 /\ text_parts = <<>> /\ in_table = FALSE /\ table_data = <<>>
    /\ current_row = <<>> /\ current_cell = <<>>
    /\ in_bold = FALSE /\ in_italic = FALSE
    /\ parsed_text = <<>> /\ tables = <<>> /\ ti = 1 /\ elements = <<>>
    /\ zip_ok = FALSE /\ infolist = <<>> /\ fi = 1 /\ msg_count = 0
    /\ errors = <<>> /\ outzip = <<>> /\ bpc = "idle"
    /\ reported = [shown |-> "nothing", converted |-> 0, failed |-> 0]

\* msg_to_pdf_bytes is about to be called on a message; the parser fields
\* are those HTMLToReportLab.__init__ sets
InitMsg ==
    /\ t = None /\ r1 = <<>> /\ r2 = <<>> /\ cpc = "idle"
    /\ msg \in Messages /\ mpc = "start"
    /\ sender = <<>> /\ to = <<>> /\ cc = <<>> /\ subject = <<>> /\ date = <<>>
    /\ body_html = None /\ body_text = <<>>
    /\ pos = 1 /\ text_parts = <<>> /\ in_table = FALSE /\ table_data = <<>>
    /\ current_row = <<>> /\ current_cell = <<>>
    /\ in_bold = FALSE /\ in_italic = FALSE
    /\ parsed_text = <<>> /\ tables = <<>> /\ ti = 1 /\ elements = <<>>
    /\ zip_ok = FALSE /\ infolist = <<>> /\ fi = 1 /\ msg_count = 0
    /\ errors = <<>> /\ outzip = <<>> /\ bpc = "idle"
    /\ reported = [shown |-> "nothing", converted |-> 0, failed |-> 0]

\* the button was pressed on an uploaded archive
InitBatch ==
    /\ t = None /\ r1 = <<>> /\ r2 = <<>> /\ cpc = "idle"
    /\ msg = InvalidMessage /\ mpc = "idle"
    /\ sender = <<>> /\ to = <<>> /\ cc = <<>> /\ subject = <<>> /\ date = <<>>
    /\ body_html = None /\ body_text = <<>>
    /\ pos = 1 /\ text_parts = <<>> /\ in_table = FALSE /\ table_data = <<>>
    /\ current_row = <<>> /\ current_cell = <<>>
    /\ in_bold = FALSE /\ in_italic = FALSE
    /\ parsed_text = <<>> /\ tables = <<>> /\ ti = 1 /\ elements = <<>>
    /\ zip_ok \in BOOLEAN
    /\ infolist \in SeqsUpTo(Entries, MaxEntries)
    /\ (~zip_ok => infolist = <<>>)
    /\ fi = 1 /\ msg_count = 0 /\ errors = <<>> /\ outzip = <<>> /\ bpc = "start"
    /\ reported = [shown |-> "nothing", converted |-> 0, failed |-> 0]

NextClean == CleanOnce \/ CleanTwice

NextMsg ==
    \/ OpenRaises \/ Extract \/ BranchHtml \/ BranchPlain
    \/ handle_starttag \/ handle_endtag \/ handle_data
    \/ parse_html_body_return
    \/ AddParsedText \/ ParagraphRaises \/ AddTable \/ Build \/ BuildRaises

NextBatch ==
    \/ OpenZipRaises \/ OpenZip \/ SkipEntry \/ ConvertEntry \/ ConvertRaises
    \/ Report

SpecClean == InitClean /\ [][NextClean]_vars
SpecMsg == InitMsg /\ [][NextMsg]_vars
SpecBatch == InitBatch /\ [][NextBatch]_vars

Init == InitClean \/ InitMsg \/ InitBatch

Next == NextClean \/ NextMsg \/ NextBatch

Spec == Init /\ [][Next]_vars

----------------------------------------------------------------------------
(* What the source text says, read off the events without the parser *)

Indices(h) == [i \in 1..Len(h) |-> i]

RowTags == {"tr"}
CellTags == {"td", "th"}
BoldTags == {"b", "strong"}
ItalicTags == {"i", "em"}

IsStart(e, tags) == e.kind = "start" /\ e.tag \in tags
IsEnd(e, tags) == e.kind = "end" /\ e.tag \in tags
IsTag(e, tags) == e.kind \in {"start", "end"} /\ e.tag \in tags

Max(X) == CHOOSE x \in X : \A y \in X : y <= x

\* event i lies inside a table: the last table tag before it opens one
SrcInTable(h, i) ==
    LET T == {j \in 1..(i - 1) : IsTag(h[j], {"table"})}
    IN  T # {} /\ h[Max(T)].kind = "start"

\* event i lies inside a cell: the last cell or table tag before it opens a
\* cell of a table
SrcCellOpen(h, i) ==
    LET T == {j \in 1..(i - 1) : IsTag(h[j], CellTags \cup {"table"})}
    IN  T # {} /\ IsStart(h[Max(T)], CellTags) /\ SrcInTable(h, Max(T))

RECURSIVE SrcDepth(_, _, _)
\* how many elements of the given tags are open before event i (a close with
\* nothing open closes nothing)
SrcDepth(h, i, tags) ==
    IF i <= 1 THEN 0
    ELSE LET d == SrcDepth(h, i - 1, tags)
             e == h[i - 1]
         IN  IF IsStart(e, tags) THEN d + 1
             ELSE IF IsEnd(e, tags) /\ d > 0 THEN d - 1
             ELSE d

\* the runs of character data outside every cell, in order
OutsideRuns(h) ==
    SelectSeq(Indices(h), LAMBDA i : h[i].kind = "data" /\ ~SrcCellOpen(h, i))

\* each character of those runs with the formatting of its place in the source
SpansOfRun(h, i) ==
    [k \in 1..Len(h[i].data) |->
        [ch |-> h[i].data[k],
         bold |-> SrcDepth(h, i, BoldTags) > 0,
         italic |-> SrcDepth(h, i, ItalicTags) > 0]]

ExpectedSpans(h) ==
    Flatten([n \in 1..Len(OutsideRuns(h)) |-> SpansOfRun(h, OutsideRuns(h)[n])])

Markers == {"<b>", "</b>", "<i>", "</i>", "<br/>"}

RECURSIVE MarkerDepth(_, _, _, _)
\* how many open markers precede place k of the text
MarkerDepth(s, k, open, close) ==
    IF k <= 1 THEN 0
    ELSE LET d == MarkerDepth(s, k - 1, open, close)
         IN  IF s[k - 1] = open THEN d + 1
             ELSE IF s[k - 1] = close /\ d > 0 THEN d - 1
             ELSE d

\* the spans a reader of the text stream reconstructs from its markers
EmittedSpans(s) ==
    LET places == SelectSeq([k \in 1..Len(s) |-> k], LAMBDA k : s[k] \notin Markers)
    IN  [n \in 1..Len(places) |->
            [ch |-> s[places[n]],
             bold |-> MarkerDepth(s, places[n], "<b>", "</b>") > 0,
             italic |-> MarkerDepth(s, places[n], "<i>", "</i>") > 0]]

\* ---- one well-formed table

TableStarts(h) == SelectSeq(Indices(h), LAMBDA i : IsStart(h[i], {"table"}))
TableEnds(h) == SelectSeq(Indices(h), LAMBDA i : IsEnd(h[i], {"table"}))
RowStarts(h) == SelectSeq(Indices(h), LAMBDA i : IsStart(h[i], RowTags))
RowEnds(h) == SelectSeq(Indices(h), LAMBDA i : IsEnd(h[i], RowTags))
CellStarts(h) == SelectSeq(Indices(h), LAMBDA i : IsStart(h[i], CellTags))
CellEnds(h) == SelectSeq(Indices(h), LAMBDA i : IsEnd(h[i], CellTags))

\* opens and closes pair up one after the other, none nested
Paired(opens, closes) ==
    /\ Len(opens) = Len(closes)
    /\ \A n \in 1..Len(opens) :
         /\ opens[n] < closes[n]
         /\ n < Len(opens) => closes[n] < opens[n + 1]

WellFormedSingleTable(h) ==
    /\ Len(TableStarts(h)) = 1 /\ Len(TableEnds(h)) = 1
    /\ TableStarts(h)[1] < TableEnds(h)[1]
    /\ Paired(RowStarts(h), RowEnds(h))
    /\ \A n \in 1..Len(RowStarts(h)) :
         TableStarts(h)[1] < RowStarts(h)[n] /\ RowEnds(h)[n] < TableEnds(h)[1]
    /\ Paired(CellStarts(h), CellEnds(h))
    /\ \A n \in 1..Len(CellStarts(h)) :
         /\ h[CellStarts(h)[n]].tag = h[CellEnds(h)[n]].tag
         /\ \E r \in 1..Len(RowStarts(h)) :
              RowStarts(h)[r] < CellStarts(h)[n] /\ CellEnds(h)[n] < RowEnds(h)[r]

\* the number of cell pairs of the r-th row pair
SrcCellsOfRow(h, r) ==
    Cardinality({n \in 1..Len(CellStarts(h)) :
        RowStarts(h)[r] < CellStarts(h)[n] /\ CellEnds(h)[n] < RowEnds(h)[r]})

SrcRowShape(h) == [r \in 1..Len(RowStarts(h)) |-> SrcCellsOfRow(h, r)]

\* the number of cells of each row of a table
ShapeOf(tbl) == [r \in 1..Len(tbl) |-> Len(tbl[r])]

\* ---- a table that is never closed

Unterminated(h) == SrcInTable(h, Len(h) + 1)

LastTableStart(h) == Max({j \in 1..Len(h) : IsStart(h[j], {"table"})})

\* the cells closed inside a table and not yet taken by a row tag, at event e
SrcPending(h, e) ==
    Cardinality({k \in 1..(e - 1) :
        /\ IsEnd(h[k], CellTags) /\ SrcInTable(h, k)
        /\ ~\E m \in (k + 1)..(e - 1) : IsTag(h[m], RowTags) /\ SrcInTable(h, m)})

\* the row closes of the last table, in order
SrcRowCloses(h) ==
    SelectSeq(Indices(h), LAMBDA e : e > LastTableStart(h) /\ IsEnd(h[e], RowTags))

\* the cells of each row of the last table that was closed holding a cell
SrcClosedRowShape(h) ==
    LET closes == SelectSeq(SrcRowCloses(h), LAMBDA e : SrcPending(h, e) > 0)
    IN  [n \in 1..Len(closes) |-> SrcPending(h, closes[n])]

Parsed == mpc = "parsed"

----------------------------------------------------------------------------
(* Claims *)

\* C1, as stated: for a body of one well-formed table the parser returns a
\* table with one row for every row pair of the source, the rows without
\* cells included, and the i-th row has the cells of the i-th source row.
C1_EveryRowPairIsARow ==
    (Parsed /\ WellFormedSingleTable(html)) => ShapeOf(tables) = SrcRowShape(html)

\* C1, amended: for a body of one well-formed table the parser returns the
\* rows of that table that hold at least one cell, in source order, each with
\* as many cells as its source row has cell pairs; a row pair without cells
\* gives no row.
C1_RowsWithCellsAreRows ==
    (Parsed /\ WellFormedSingleTable(html)) =>
        ShapeOf(tables) = SelectSeq(SrcRowShape(html), LAMBDA n : n > 0)

\* a well-formed table of two rows, the first without a cell, was parsed
C1_Witness ==
    /\ Parsed /\ WellFormedSingleTable(html)
    /\ SrcRowShape(html) = <<0, 2>>
    /\ tables = << << <<"A">>, <<"B">> >> >>

\* C2, as stated: when a table is opened and never closed, the parse returns
\* no table for it, even when rows of it were opened and closed.
C2_UnterminatedGivesNoTable ==
    (Parsed /\ Unterminated(html)) => tables = <<>>

\* C2, amended: when a table is opened and never closed, the parse ends and
\* returns one row for every row close of that table reached with at least
\* one closed cell pending, with those cells; only cells of a row that is
\* never closed are discarded.
C2_UnterminatedKeepsClosedRows ==
    (Parsed /\ Unterminated(html)) => ShapeOf(tables) = SrcClosedRowShape(html)

\* <table><tr><td>A</td></tr><tr><td>B</td> was parsed: a closed row, then
\* a row that is never closed
C2_Witness ==
    /\ Parsed /\ Unterminated(html)
    /\ Len(html) = 10
    /\ current_row = << <<"B">> >>
    /\ tables = << << <<"A">> >> >>

\* C3: the blocks are in document order: every table close seen inside a
\* table gives one table block, so k closed tables give k table blocks, and
\* text after a closed table is a text block placed after that table block.
C3_BlocksInDocumentOrder ==
    mpc = "done" =>
        LET tableBlocks == {n \in 1..Len(elements) : elements[n].type = "Table"}
            textBlocks == {n \in 7..Len(elements) : elements[n].type = "Paragraph"}
            closes == {i \in 1..Len(html) :
                          IsEnd(html[i], {"table"}) /\ SrcInTable(html, i)}
        IN  /\ Cardinality(tableBlocks) = Cardinality(closes)
            /\ (\E i \in closes : \E j \in (i + 1)..Len(html) :
                    html[j].kind = "data" /\ ~SrcInTable(html, j))
                 => \E n \in tableBlocks : \E m \in textBlocks : n < m

\* C4: every run of character data outside a cell is in the text stream,
\* bold exactly when it lies inside a bold or strong element of the source,
\* italic exactly when it lies inside an i or em element.
C4_SpansCarrySourceFormatting ==
    Parsed => EmittedSpans(parsed_text) = ExpectedSpans(html)

\* What holds of the spans in spite of that: in a body where no character
\* data lies inside a table and outside its cells, the markers of the text
\* stream give every run the formatting of its place in the source.
SpansRightWithoutStrayData ==
    (Parsed /\ \A i \in 1..Len(html) :
                  (html[i].kind = "data" /\ SrcInTable(html, i)) => SrcCellOpen(html, i))
        => EmittedSpans(parsed_text) = ExpectedSpans(html)

\* The example body of C4 parses to the stream "<b>Hi</b> there<br/>" and
\* the one row ["A", "B"].
ExampleParsesAsStated ==
    (Parsed /\ html = ExampleBody) =>
        /\ parsed_text = <<"<b>", "H", "i", "</b>", " ", "t", "h", "e", "r", "e", "<br/>">>
        /\ tables = << << <<"A">>, <<"B">> >> >>

\* C5: a message whose markup body is present and empty gives a markup body
\* that is present and empty, not the "not present" of a message without one.
C5_EmptyBodyStaysPresent ==
    (mpc = "body" /\ msg.has_htmlBody /\ msg.htmlBody = Some(<<>>)) =>
        body_html = Some(<<>>)

\* the code points the sanitizer is said to remove
ListedInvisible ==
    { "U+200B", "U+200C", "U+200D", "U+FEFF",
      "U+202A", "U+202B", "U+202C", "U+202D", "U+202E",
      "U+2060", "U+000B", "U+000C", "U+00AD" }

Sanitized(s) == \A k \in 1..Len(s) : s[k] \notin ListedInvisible

\* C6: clean_text removes every listed code point and keeps every other one
\* in order; cleaning the result again changes nothing; an absent or empty
\* text gives the empty text.
C6_CleanRemovesExactlyTheListed ==
    /\ cpc \in {"cleaned", "again"} =>
         r1 = SelectSeq(t.v, LAMBDA c : c \notin ListedInvisible)
    /\ cpc = "again" => r2 = r1
    /\ (cpc \in {"cleaned", "again"} /\ (~t.has \/ t.v = <<>>)) => r1 = <<>>

\* a text with a listed and a visible code point was cleaned twice
C6_Witness ==
    /\ cpc = "again"
    /\ t = Some(<<"U+00AD", "A", "U+200B">>)
    /\ r2 = <<"A">>

\* C7: every text field of the message has been sanitized, the markup body
\* included when it is present, and no field but the markup body is null.
C7_EveryFieldSanitized ==
    mpc = "body" =>
        /\ \A f \in {sender, to, cc, subject, date, body_text} : Sanitized(f)
        /\ body_html.has =>
             \A i \in 1..Len(body_html.v) : Sanitized(body_html.v[i].data)

\* ---- the batch

IsMsg(f) == ~f.is_dir /\ f.name.ext \in {".msg", ".MSG"}

\* C8: a failing entry never ends the batch: every entry is gone through,
\* each failing .msg entry is in the error list, in order, and the output
\* archive holds exactly the PDFs of the .msg entries that did not fail.
C8_FailureDoesNotAbort ==
    /\ zip_ok => bpc # "error"
    /\ bpc = "done" =>
        LET failing == SelectSeq(infolist, LAMBDA f : IsMsg(f) /\ f.outcome # "ok")
            passing == SelectSeq(infolist, LAMBDA f : IsMsg(f) /\ f.outcome = "ok")
        IN  /\ fi = Len(infolist) + 1
            /\ errors = [n \in 1..Len(failing) |->
                            [filename |-> failing[n].name, error |-> failing[n].outcome]]
            /\ outzip = [n \in 1..Len(passing) |->
                            [dir |-> "", stem |-> passing[n].name.stem, ext |-> ".pdf"]]

\* a batch whose first entry failed and whose last was converted
C8_Witness ==
    /\ bpc = "done"
    /\ Len(infolist) = MaxEntries
    /\ IsMsg(infolist[1]) /\ infolist[1].outcome = "convert raises"
    /\ IsMsg(infolist[MaxEntries]) /\ infolist[MaxEntries].outcome = "ok"
    /\ Len(errors) = 1 /\ Len(outzip) >= 1

\* C10: the number of emails reported as converted is the number of PDFs
\* written: the .msg entries seen less those in the error list.
C10_ReportedEqualsWritten ==
    (bpc = "done" /\ reported.shown = "success") =>
        /\ reported.converted = Len(outzip)
        /\ reported.converted =
             Len(SelectSeq(infolist, IsMsg)) - Len(errors)

\* C9: every run of character data seen while no cell is open is in the text
\* stream, in order, and nothing else is; none is dropped.
C9_DataOutsideCellsIsText ==
    Parsed =>
        SelectSeq(parsed_text, LAMBDA c : c \notin Markers)
            = Flatten([n \in 1..Len(OutsideRuns(html)) |-> html[OutsideRuns(html)[n]].data])

====
